---- MODULE Spec2Model ----
(***************************************************************************)
(* Connector executor, response cache, connector registry and workflow     *)
(* engine of MCPIntegrationHub (src/src/services/MCPIntegrationHub.ts).    *)
(*                                                                         *)
(* Time is Date.now() in milliseconds.  An executeConnector call is split  *)
(* at its await: the synchronous prefix (lookup, enabled check, cache      *)
(* lookup, start of the dispatch strategy) is one action, every event that *)
(* settles the strategy's promise (timer, response, process exit, fs       *)
(* completion) is one action that also runs the continuation of            *)
(* executeConnector (duration stamp, cache store, return).                 *)
(***************************************************************************)
EXTENDS Integers, Sequences, FiniteSets, TLC

VARIABLES
    connectors,     \* Map<string, MCPConnector>: registered id -> connector
    workflows,      \* Map<string, MCPWorkflow>: registered id -> workflow
    responseCache,  \* Map<string, {response, timestamp}>: cache key -> entry
    now,            \* Date.now()
    calls,          \* executeConnector invocations: call id -> frame
    configFiles,    \* the .neon-connectors* files of the workspace: name -> content
    loads,          \* loadConnectors invocations followed await by await
    watcher,        \* file watcher events delivered so far: how many, the last one
    cleanupAt,      \* when the setInterval callback of setupCacheCleanup is next due
    wf              \* the executeWorkflow invocation: its frame

vars == <<connectors, workflows, responseCache, now, calls, configFiles, loads, watcher,
         cleanupAt, wf>>

----------------------------------------------------------------------------
(* Bounds of the model *)

\* external executeConnector invocations per behaviour
MaxCalls == 2
\* the clock runs at least this far when the cache sweep is followed
MaxSweepNow == 360000
\* file watcher events (create, change, delete) per behaviour
MaxEvents == 3
\* the clock stops advancing here
MaxNow == 60000
\* loop iterations of one executeWorkflow run the model follows
MaxIterations == 4

(* Program constants *)

\* executeConnector: "Date.now() - cached.timestamp < 60000"
CacheTTL == 60000
\* executeAPIConnector: "timeout = 10000" destructuring default
DefaultAPITimeout == 10000
\* executeCLIConnector: "timeout = 30000" destructuring default
DefaultCLITimeout == 30000
\* executeWebhookConnector: "timeout = 5000" destructuring default
DefaultWebhookTimeout == 5000
\* setupCacheCleanup: "maxAge = 5 * 60 * 1000"
MaxAge == 300000
\* setupCacheCleanup: "setInterval(..., 60000)"
CleanupInterval == 60000
\* the clock advances by this much, or to the next timer deadline if sooner
TickMs == 30000

\* the JavaScript value undefined (an absent property), for string fields
Undefined == "undefined"
\* an absent numeric property (timeout, duration)
Absent == 0 - 1

----------------------------------------------------------------------------
(* Connector definitions *)

MkConfig(endpoint, webhookUrl, command, filePath, timeout, retries) ==
    [endpoint |-> endpoint, webhookUrl |-> webhookUrl, command |-> command,
     filePath |-> filePath, timeout |-> timeout, retries |-> retries]

MkConnector(id, type, config, enabled, priority) ==
    [id |-> id, type |-> type, config |-> config, enabled |-> enabled,
     priority |-> priority]

\* a config with the optional headers property: the names of the headers set
WithHeaders(config, names) ==
    [f \in DOMAIN config \cup {"headers"} |->
        IF f = "headers" THEN names ELSE config[f]]

\* a config with the optional authentication property: its type
WithAuthentication(config, type) ==
    [f \in DOMAIN config \cup {"authentication"} |->
        IF f = "authentication" THEN type ELSE config[f]]

\* loadBuiltinConnectors: the five connectors it sets, in its order
BuiltinConnectors ==
    << MkConnector("github", "api",
           WithHeaders(MkConfig("https://api.github.com", Undefined, Undefined,
                                Undefined, 10000, 3),
                       {"Accept", "User-Agent"}),
           TRUE, 100),
       MkConnector("jira", "api",
           MkConfig(Undefined, Undefined, Undefined, Undefined, 15000, 2),
           FALSE, 90),
       MkConnector("slack", "webhook",
           MkConfig(Undefined, Undefined, Undefined, Undefined, 5000, 2),
           FALSE, 80),
       MkConnector("docker", "cli",
           MkConfig(Undefined, Undefined, "docker", Undefined, 30000, 1),
           FALSE, 70),
       MkConnector("database", "database",
           MkConfig(Undefined, Undefined, Undefined, Undefined, 20000, 2),
           FALSE, 60) >>

\* connectors a .neon-connectors file of the workspace defines (the input)
UserConnectors ==
    << MkConnector("files", "file",
           MkConfig(Undefined, Undefined, Undefined, "/tmp/notes.txt", 10000, Absent),
           TRUE, 50),
       MkConnector("hook", "webhook",
           MkConfig(Undefined, "https://hooks.example.test/in", Undefined, Undefined,
                    Absent, Absent),
           TRUE, 40),
       MkConnector("tool", "cli",
           MkConfig(Undefined, Undefined, "tool", Undefined, Absent, Absent),
           TRUE, 30),
       MkConnector("db", "database",
           MkConfig(Undefined, Undefined, Undefined, Undefined, Absent, Absent),
           TRUE, 20),
       MkConnector("tracker", "api",
           WithAuthentication(
               WithHeaders(MkConfig("https://tracker.example.test", Undefined, Undefined,
                                    Undefined, Absent, Absent),
                           {"Accept"}),
               "bearer"),
           TRUE, 10) >>

\* Map.set applied to a map held as a function
MapSet(map, key, value) ==
    [k \in DOMAIN map \cup {key} |-> IF k = key THEN value ELSE map[k]]

RECURSIVE SetAll(_, _)
\* "for (const x of list) map.set(x.id, x)"
SetAll(map, list) ==
    IF list = <<>> THEN map
    ELSE SetAll(MapSet(map, Head(list).id, Head(list)), Tail(list))

EmptyMap == [k \in {} |-> Undefined]

\* loadBuiltinConnectors
loadBuiltinConnectors(map) == SetAll(map, BuiltinConnectors)

----------------------------------------------------------------------------
(* Inputs of executeConnector *)

\* params objects, each the sequence of its <<key, value>> pairs in insertion order
NoParams == <<>>
PingParams == << <<"path", "/ping">> >>
\* one object written with its keys in either order
SqlLimit == << <<"sql", "select 1">>, <<"limit", "1">> >>
LimitSql == << <<"limit", "1">>, <<"sql", "select 1">> >>
\* an object that refers to itself: JSON.stringify throws a TypeError on it
Circular == << <<"self", "[Circular]">> >>

\* the executeConnector requests callers make, each <<connectorId, action, params>>:
\* every connector type with an action its strategy supports and, where the
\* strategy checks the action, one it does not; "ghost" is never registered
Requests ==
    { <<"github", "get", NoParams>>, <<"github", "get", PingParams>>,
      <<"github", "read", NoParams>>,
      <<"files", "read", NoParams>>, <<"files", "get", NoParams>>,
      <<"hook", "get", NoParams>>,
      <<"tool", "get", NoParams>>,
      <<"db", "query", NoParams>>, <<"db", "get", NoParams>>,
      <<"db", "query", Circular>>,
      <<"db", "query", SqlLimit>>, <<"db", "query", LimitSql>>,
      <<"ghost", "get", NoParams>> }

\* JSON.stringify(params) returns (it throws on a circular structure)
Serializable(params) == \A i \in 1..Len(params) : params[i][2] # "[Circular]"

RECURSIVE JSONstringify(_)
\* JSON.stringify of a params object: its keys and values in insertion order
JSONstringify(params) ==
    IF params = <<>> THEN <<>>
    ELSE <<Head(params)[1], ":", Head(params)[2]>> \o JSONstringify(Tail(params))

\* `${connectorId}:${action}:${JSON.stringify(params)}`
CacheKey(connectorId, action, params) ==
    <<connectorId, ":", action, ":">> \o JSONstringify(params)

\* params.path || ''
ParamPath(params) ==
    IF \E i \in 1..Len(params) : params[i][1] = "path"
    THEN (CHOOSE pr \in {params[i] : i \in 1..Len(params)} : pr[1] = "path")[2]
    ELSE ""

----------------------------------------------------------------------------
(* Response envelopes (MCPResponse) *)

\* cached = FALSE stands for an envelope without the cached property
Envelope(success, data, error, metadata) ==
    [success |-> success, data |-> data, error |-> error, metadata |-> metadata,
     cached |-> FALSE, duration |-> Absent]

\* no envelope yet: a pending promise, a call that has not returned
NoEnvelope == [pending |-> TRUE]

\* what the network, the child process and the file system can answer
StatusCodes == {0, 200, 404}     \* 0: res.statusCode is undefined
Bodies == {"{\"pong\":true}", "pong"}
IOOutcomes == {"ok", "error"}

\* JSON.parse(data): the body when it is JSON, a SyntaxError otherwise
JSONparses(data) == data = "{\"pong\":true}"

----------------------------------------------------------------------------
(* Dispatch strategies: the part that runs before the first await.         *)
(* Each returns what executeConnector then awaits: a promise already       *)
(* settled (promise is an envelope) or one pending on an operation (io)    *)
(* with the timeout that guards it (Absent: none).                         *)

Settled(envelope) == [promise |-> envelope, io |-> "none", timeout |-> Absent]
Pending(io, timeout) == [promise |-> NoEnvelope, io |-> io, timeout |-> timeout]

\* new URL(url) parses
URLparses(url) == url[1] # ""

\* "{ timeout = d } = connector.config": the default applies to undefined only
TimeoutOr(config, default) == IF config.timeout = Absent THEN default ELSE config.timeout

executeAPIConnector(connector, action, params) ==
    LET url == << IF connector.config.endpoint = Undefined THEN ""
                  ELSE connector.config.endpoint, ParamPath(params) >>
    IN  IF action \notin {"get", "post", "put", "delete"}
        THEN Settled(Envelope(FALSE, Undefined, "Unsupported API action", Absent))
        ELSE IF ~URLparses(url)
        THEN Settled(Envelope(FALSE, Undefined, "API request failed", Absent))
        ELSE Pending("request", TimeoutOr(connector.config, DefaultAPITimeout))

executeCLIConnector(connector, action, params) ==
    Pending("exec", TimeoutOr(connector.config, DefaultCLITimeout))

executeFileConnector(connector, action, params) ==
    IF action \in {"read", "write", "append", "exists", "stat"}
    THEN Pending("fs", Absent)
    ELSE Settled(Envelope(FALSE, Undefined, "Unsupported file action", Absent))

executeDatabaseConnector(connector, action, params) ==
    IF action = "query" THEN Settled(Envelope(TRUE, "rows", Undefined, Absent))
    ELSE IF action = "schema" THEN Settled(Envelope(TRUE, "tables", Undefined, Absent))
    ELSE Settled(Envelope(FALSE, Undefined, "Unsupported database action", Absent))

executeWebhookConnector(connector, action, params) ==
    LET url == << IF connector.config.webhookUrl = Undefined THEN ""
                  ELSE connector.config.webhookUrl, "" >>
    IN  IF ~URLparses(url)
        THEN Settled(Envelope(FALSE, Undefined, "Webhook execution failed", Absent))
        ELSE Pending("request", TimeoutOr(connector.config, DefaultWebhookTimeout))

\* the switch on connector.type in executeConnector
Dispatch(connector, action, params) ==
    CASE connector.type = "api" -> executeAPIConnector(connector, action, params)
      [] connector.type = "cli" -> executeCLIConnector(connector, action, params)
      [] connector.type = "file" -> executeFileConnector(connector, action, params)
      [] connector.type = "database" -> executeDatabaseConnector(connector, action, params)
      [] connector.type = "webhook" -> executeWebhookConnector(connector, action, params)
      [] OTHER -> Settled(Envelope(FALSE, Undefined, "Unsupported connector type", Absent))

\* addAuthentication: the header it sets, by auth.type
AuthHeaders(type) ==
    CASE type \in {"bearer", "basic"} -> {"Authorization"}
      [] type = "apikey" -> {"X-API-Key"}
      [] OTHER -> {}

\* the headers object of executeAPIConnector when the request is built:
\* "headers = {}" destructured from connector.config, addAuthentication,
\* headers['Content-Type'] for post and put
RequestHeaders(config, action) ==
    LET destructured == IF "headers" \in DOMAIN config THEN config.headers ELSE {}
        authenticated ==
            IF "authentication" \in DOMAIN config
            THEN destructured \cup AuthHeaders(config.authentication)
            ELSE destructured
    IN  IF action \in {"post", "put"} THEN authenticated \cup {"Content-Type"}
        ELSE authenticated

----------------------------------------------------------------------------
(* Call frames of executeConnector *)

\* call 0 is the one a workflow's connector step makes, 1..MaxCalls are
\* those of external callers
WfCall == 0
ExternalCalls == 1..MaxCalls
CallSlots == {WfCall} \cup ExternalCalls

IdleFrame ==
    [pc |-> "idle", connectorId |-> Undefined, action |-> Undefined, params |-> <<>>,
     issuedAt |-> Absent, startTime |-> Absent, strategy |-> Undefined,
     configured |-> Absent, attempts |-> 0, found |-> Undefined,
     dispatched |-> FALSE, promise |-> NoEnvelope, io |-> "none", timer |-> Absent,
     status |-> Absent, response |-> NoEnvelope]

\* issuedAt (when the call was made), dispatched (a strategy was invoked),
\* attempts (how many times one was), found (the type of the definition the
\* lookup of the call returned) and configured (config.timeout of the
\* connector dispatched to) are bookkeeping of the model

\* "return envelope" before any await
Returned(frame, envelope) == [frame EXCEPT !.pc = "returned", !.response = envelope]

\* an exception thrown outside every try block: the promise the async
\* function returned is rejected
Rejected(frame) == [frame EXCEPT !.pc = "rejected"]

\* the strategy of the connector registered under connectorId is started
Dispatched(frame, connectorId, action, params) ==
    LET d == Dispatch(connectors[connectorId], action, params)
    IN  [frame EXCEPT !.pc = "awaiting", !.startTime = now,
                      !.strategy = connectors[connectorId].type,
                      !.configured = connectors[connectorId].config.timeout,
                      !.dispatched = TRUE, !.attempts = frame.attempts + 1,
                      !.promise = d.promise, !.io = d.io,
                      !.timer = IF d.timeout = Absent THEN Absent ELSE now + d.timeout]

\* the registry once the call whose frame is `frame` has reached its await:
\* the headers object executeAPIConnector writes to is config.headers itself
\* when the connector's config has one (a destructuring default is a new object)
RegistryAfter(frame) ==
    IF /\ frame.dispatched
       /\ connectors[frame.connectorId].type = "api"
       /\ "headers" \in DOMAIN connectors[frame.connectorId].config
    THEN [connectors EXCEPT ![frame.connectorId].config.headers =
              RequestHeaders(connectors[frame.connectorId].config, frame.action)]
    ELSE connectors

\* a fresh cache entry exists for the request
CacheHit(cacheKey) ==
    /\ cacheKey \in DOMAIN responseCache
    /\ now - responseCache[cacheKey].timestamp < CacheTTL

\* not the code: executeConnector with the cache lookup moved before the
\* enabled check
Invoke_CacheBeforeEnabled(connectorId, action, params) ==
    LET frame == [IdleFrame EXCEPT !.connectorId = connectorId, !.action = action,
                                   !.params = params, !.issuedAt = now]
        cacheKey == CacheKey(connectorId, action, params)
    IN  IF connectorId \notin DOMAIN connectors
        THEN Returned(frame, Envelope(FALSE, Undefined, "Connector not found", Absent))
        ELSE IF CacheHit(cacheKey)
        THEN Returned(frame, [responseCache[cacheKey].response EXCEPT !.cached = TRUE])
        ELSE IF ~connectors[connectorId].enabled
        THEN Returned(frame, Envelope(FALSE, Undefined, "Connector is disabled", Absent))
        ELSE Dispatched(frame, connectorId, action, params)

\* not the code: executeConnector with the cache lookup moved before the
\* registry lookup
Invoke_CacheBeforeLookup(connectorId, action, params) ==
    LET frame == [IdleFrame EXCEPT !.connectorId = connectorId, !.action = action,
                                   !.params = params, !.issuedAt = now]
        cacheKey == CacheKey(connectorId, action, params)
    IN  IF CacheHit(cacheKey)
        THEN Returned(frame, [responseCache[cacheKey].response EXCEPT !.cached = TRUE])
        ELSE IF connectorId \notin DOMAIN connectors
        THEN Returned(frame, Envelope(FALSE, Undefined, "Connector not found", Absent))
        ELSE IF ~connectors[connectorId].enabled
        THEN Returned(frame, Envelope(FALSE, Undefined, "Connector is disabled", Absent))
        ELSE Dispatched(frame, connectorId, action, params)

\* executeConnector up to its first await (or its early return)
Invoke(connectorId, action, params) ==
    LET frame == [IdleFrame EXCEPT !.connectorId = connectorId, !.action = action,
                                   !.params = params, !.issuedAt = now,
                                   !.found = IF connectorId \in DOMAIN connectors
                                             THEN connectors[connectorId].type
                                             ELSE Undefined]
        cacheKey == CacheKey(connectorId, action, params)
    IN  IF connectorId \notin DOMAIN connectors
        THEN Returned(frame, Envelope(FALSE, Undefined, "Connector not found", Absent))
        ELSE IF ~connectors[connectorId].enabled
        THEN Returned(frame, Envelope(FALSE, Undefined, "Connector is disabled", Absent))
        ELSE IF ~Serializable(params)
        THEN Rejected(frame)
        ELSE IF CacheHit(cacheKey)
        THEN Returned(frame, [responseCache[cacheKey].response EXCEPT !.cached = TRUE])
        ELSE Dispatched(frame, connectorId, action, params)

\* executeConnector after the await: "response.duration = ...", the return
Stamped(frame, envelope) == [envelope EXCEPT !.duration = now - frame.startTime]

\* not the code: a successful write or append drops what the cache holds for
\* the connector written through
CacheAfter_Invalidating(cache, frame, response) ==
    IF response.success
    THEN LET kept == IF frame.action \in {"write", "append"}
                     THEN {key \in DOMAIN cache : key[1] # frame.connectorId}
                     ELSE DOMAIN cache
         IN  MapSet([key \in kept |-> cache[key]],
                    CacheKey(frame.connectorId, frame.action, frame.params),
                    [response |-> response, timestamp |-> now])
    ELSE cache

\* not the code: every response is stored, failed ones too
CacheAfter_Always(cache, frame, response) ==
    MapSet(cache, CacheKey(frame.connectorId, frame.action, frame.params),
           [response |-> response, timestamp |-> now])

\* not the code: the envelope is stored as the strategy returned it, before
\* its duration is set
CacheAfter_Unstamped(cache, frame, response) ==
    IF response.success
    THEN MapSet(cache, CacheKey(frame.connectorId, frame.action, frame.params),
                [response |-> [response EXCEPT !.duration = Absent], timestamp |-> now])
    ELSE cache

\* "if (response.success) this.responseCache.set(cacheKey, {response, timestamp})"
CacheAfter(cache, frame, response) ==
    IF response.success
    THEN MapSet(cache, CacheKey(frame.connectorId, frame.action, frame.params),
                [response |-> response, timestamp |-> now])
    ELSE cache

\* not the code: a failed dispatch is started again while the connector's
\* config.retries allows it
Resolve_Retrying(c, frame, envelope) ==
    IF calls[c].pc = "awaiting"
    THEN IF ~envelope.success
            /\ frame.attempts <= connectors[frame.connectorId].config.retries
         THEN /\ calls' = [calls EXCEPT ![c] =
                     Dispatched(frame, frame.connectorId, frame.action, frame.params)]
              /\ UNCHANGED responseCache
         ELSE /\ calls' = [calls EXCEPT ![c] = Returned(frame, Stamped(frame, envelope))]
              /\ responseCache' = CacheAfter(responseCache, frame, Stamped(frame, envelope))
    ELSE /\ calls' = [calls EXCEPT ![c] = frame]
         /\ UNCHANGED responseCache

\* not the code: every resolve runs the continuation of executeConnector,
\* also on a promise that is settled already
Resolve_EveryTime(c, frame, envelope) ==
    /\ calls' = [calls EXCEPT ![c] = Returned(frame, Stamped(frame, envelope))]
    /\ responseCache' = CacheAfter(responseCache, frame, Stamped(frame, envelope))

\* resolve(envelope) on the strategy's promise, then the continuation of
\* executeConnector; a second resolve of a settled promise does nothing.
\* `frame` is the call's frame with the event's own changes applied.
Resolve(c, frame, envelope) ==
    IF calls[c].pc = "awaiting"
    THEN /\ calls' = [calls EXCEPT ![c] = Returned(frame, Stamped(frame, envelope))]
         /\ responseCache' = CacheAfter(responseCache, frame, Stamped(frame, envelope))
    ELSE /\ calls' = [calls EXCEPT ![c] = frame]
         /\ UNCHANGED responseCache

----------------------------------------------------------------------------
(* Actions of the executor *)

\* no continuation is queued as a microtask: timers, I/O callbacks and file
\* watcher events run only then
MicrotasksDone ==
    \A c \in CallSlots : calls[c].pc = "awaiting" => calls[c].promise = NoEnvelope

\* an external caller invokes executeConnector
ExecuteConnector(c, connectorId, action, params) ==
    /\ c \in ExternalCalls
    /\ calls[c].pc = "idle"
    /\ c = 1 \/ calls[c - 1].pc # "idle"
    /\ calls' = [calls EXCEPT ![c] = Invoke(connectorId, action, params)]
    /\ connectors' = RegistryAfter(Invoke(connectorId, action, params))
    /\ UNCHANGED <<loads, watcher, cleanupAt, workflows, responseCache, now, configFiles, wf>>

\* the continuation after awaiting a strategy that returned without awaiting
Resume(c) ==
    /\ calls[c].pc = "awaiting"
    /\ calls[c].promise # NoEnvelope
    /\ Resolve(c, [calls[c] EXCEPT !.promise = NoEnvelope], calls[c].promise)
    /\ UNCHANGED <<loads, watcher, cleanupAt, connectors, workflows, now, configFiles, wf>>

\* the setTimeout callback of an api or webhook request, or exec's timeout
TimeoutFires(c) ==
    /\ MicrotasksDone
    /\ calls[c].timer # Absent
    /\ now >= calls[c].timer
    /\ CASE calls[c].strategy = "api" ->
              Resolve(c, [calls[c] EXCEPT !.timer = Absent],
                      Envelope(FALSE, Undefined, "Request timeout", Absent))
         [] calls[c].strategy = "webhook" ->
              Resolve(c, [calls[c] EXCEPT !.timer = Absent],
                      Envelope(FALSE, Undefined, "Webhook timeout", Absent))
         [] OTHER ->
              Resolve(c, [calls[c] EXCEPT !.timer = Absent, !.io = "done"],
                      Envelope(FALSE, "stdout", "CLI execution failed", Absent))
    /\ UNCHANGED <<loads, watcher, cleanupAt, connectors, workflows, now, configFiles, wf>>

\* the response callback of httpModule.request: clearTimeout, data = ''
ResponseHeaders(c, statusCode) ==
    /\ MicrotasksDone
    /\ calls[c].io = "request"
    /\ calls' = [calls EXCEPT ![c].io = "body", ![c].timer = Absent,
                              ![c].status = statusCode]
    /\ UNCHANGED <<loads, watcher, cleanupAt, connectors, workflows, responseCache, now, configFiles, wf>>

\* the envelope res.on('end') resolves with
EndEnvelope(strategy, statusCode, data) ==
    IF strategy = "api"
    THEN Envelope(IF statusCode # 0 THEN statusCode < 400 ELSE FALSE,
                  \* the parsed value, or the body as text
                  IF JSONparses(data) THEN <<"json", data>> ELSE <<"text", data>>,
                  IF statusCode # 0 /\ statusCode >= 400 THEN "HTTP error" ELSE Undefined,
                  statusCode)
    ELSE Envelope(IF statusCode # 0 THEN statusCode < 400 ELSE FALSE,
                  data,
                  IF statusCode # 0 /\ statusCode >= 400 THEN "Webhook failed" ELSE Undefined,
                  Absent)

\* res.on('end')
ResponseEnd(c, data) ==
    /\ MicrotasksDone
    /\ calls[c].io = "body"
    /\ Resolve(c, [calls[c] EXCEPT !.io = "done", !.status = Absent],
               EndEnvelope(calls[c].strategy, calls[c].status, data))
    /\ UNCHANGED <<loads, watcher, cleanupAt, connectors, workflows, now, configFiles, wf>>

\* req.on('error'): clearTimeout, resolve a failed envelope
RequestError(c) ==
    /\ MicrotasksDone
    /\ calls[c].io = "request"
    /\ Resolve(c, [calls[c] EXCEPT !.io = "done", !.timer = Absent],
               Envelope(FALSE, Undefined,
                        IF calls[c].strategy = "api" THEN "API request failed"
                        ELSE "Webhook execution failed", Absent))
    /\ UNCHANGED <<loads, watcher, cleanupAt, connectors, workflows, now, configFiles, wf>>

\* execAsync settles: the child exited
ExecExit(c, outcome) ==
    /\ MicrotasksDone
    /\ calls[c].io = "exec"
    /\ Resolve(c, [calls[c] EXCEPT !.io = "done", !.timer = Absent],
               IF outcome = "ok" THEN Envelope(TRUE, "stdout", Undefined, Absent)
               ELSE Envelope(FALSE, "stdout", "CLI execution failed", Absent))
    /\ UNCHANGED <<loads, watcher, cleanupAt, connectors, workflows, now, configFiles, wf>>

\* "result = ..." of executeFileConnector, by action: what was read, or
\* { success: true } of a write or an append
FsResult(action) ==
    IF action \in {"write", "append"} THEN "success" ELSE "content"

\* the fs.promises operation settles
FsDone(c, outcome) ==
    /\ MicrotasksDone
    /\ calls[c].io = "fs"
    /\ Resolve(c, [calls[c] EXCEPT !.io = "done"],
               IF outcome = "ok"
               THEN Envelope(TRUE, FsResult(calls[c].action), Undefined, Absent)
               ELSE Envelope(FALSE, Undefined, "File operation failed", Absent))
    /\ UNCHANGED <<loads, watcher, cleanupAt, connectors, workflows, now, configFiles, wf>>

\* armed timers (setTimeout of a request, the timeout option of exec, the
\* interval of the cache cleanup)
Deadlines ==
    {calls[c].timer : c \in {x \in CallSlots : calls[x].timer # Absent}} \cup {cleanupAt}

Min(S) == CHOOSE x \in S : \A y \in S : x <= y

\* time passes; a timer that is due runs before time passes further
Tick ==
    /\ MicrotasksDone
    /\ now < MaxNow
    /\ \A d \in Deadlines : d > now
    /\ now' = Min(Deadlines \cup {now + TickMs})
    /\ UNCHANGED <<loads, watcher, cleanupAt, connectors, workflows, responseCache, calls, configFiles, wf>>

\* not the code: the sweep empties the cache
cleanup_All(cache) == [key \in {} |-> cache[key]]

\* not the code: the sweep removes an entry as soon as its age reaches maxAge
cleanup_AtMaxAge(cache) ==
    LET kept == {key \in DOMAIN cache : ~(now - cache[key].timestamp >= MaxAge)}
    IN  [key \in kept |-> cache[key]]

\* the body of the setInterval callback: delete every entry older than maxAge
cleanup(cache) ==
    LET kept == {key \in DOMAIN cache : ~(now - cache[key].timestamp > MaxAge)}
    IN  [key \in kept |-> cache[key]]

\* the setInterval callback of setupCacheCleanup runs
Sweep ==
    /\ MicrotasksDone
    /\ now >= cleanupAt
    /\ responseCache' = cleanup(responseCache)
    /\ cleanupAt' = cleanupAt + CleanupInterval
    /\ UNCHANGED <<loads, watcher, connectors, workflows, now, calls, configFiles, wf>>

\* some cache entry is older than maxAge
SweepOwed == \E key \in DOMAIN responseCache : now - responseCache[key].timestamp > MaxAge

\* time passes as in Tick, up to MaxSweepNow and on to the next sweep for as
\* long as an entry is older than maxAge
TickSweep ==
    /\ MicrotasksDone
    /\ now < MaxSweepNow \/ SweepOwed
    /\ \A d \in Deadlines : d > now
    /\ now' = Min(Deadlines \cup {now + TickMs})
    /\ UNCHANGED <<loads, watcher, cleanupAt, connectors, workflows, responseCache, calls, configFiles, wf>>

----------------------------------------------------------------------------
(* Registry *)

\* ids toggleConnector is called with
ToggleIds == {"github", "ghost"}

\* not the code: the connector is disabled, whatever its flag was
toggleConnector_Disable(map, connectorId) ==
    IF connectorId \in DOMAIN map
    THEN [map EXCEPT ![connectorId].enabled = FALSE]
    ELSE map

toggleConnector(map, connectorId) ==
    IF connectorId \in DOMAIN map
    THEN [map EXCEPT ![connectorId].enabled = ~map[connectorId].enabled]
    ELSE map

ToggleConnector(connectorId) ==
    /\ connectors' = toggleConnector(connectors, connectorId)
    /\ UNCHANGED <<loads, watcher, cleanupAt, workflows, responseCache, now, calls, configFiles, wf>>

\* the files findFiles('**/.neon-connectors*') can return, in its order
ConfigFileNames == <<".neon-connectors.json", ".neon-connectors.local.json">>

\* a configuration file: whether it is on disk, and what its JSON defines
MkFile(exists, connectorList, workflowList) ==
    [exists |-> exists, connectors |-> connectorList, workflows |-> workflowList]

NoFile == MkFile(FALSE, <<>>, <<>>)

\* what findFiles answers: the files on disk
FindFiles == SelectSeq(ConfigFileNames, LAMBDA f : configFiles[f].exists)

RECURSIVE ProcessFiles(_, _, _)
\* "for (const configFile of configFiles) processConnectorConfig(config)",
\* for the connectors or for the workflows of every file
ProcessFiles(map, names, field) ==
    IF names = <<>> THEN map
    ELSE ProcessFiles(SetAll(map, configFiles[Head(names)][field]), Tail(names), field)

\* loadConnectors with findFiles and every readFile answered at once:
\* processConnectorConfig(config) for each configuration file
LoadConnectors ==
    /\ MicrotasksDone
    /\ FindFiles # <<>>
    /\ connectors' = ProcessFiles(connectors, FindFiles, "connectors")
    /\ workflows' = ProcessFiles(workflows, FindFiles, "workflows")
    /\ UNCHANGED <<loads, watcher, cleanupAt, responseCache, now, calls, configFiles, wf>>

\* not the code: clearConnectors empties the response cache too
ClearConnectors_ClearsCache(f) ==
    /\ MicrotasksDone
    /\ configFiles[f].exists
    /\ configFiles' = [configFiles EXCEPT ![f].exists = FALSE]
    /\ connectors' = loadBuiltinConnectors(EmptyMap)
    /\ workflows' = EmptyMap
    /\ responseCache' = EmptyMap
    /\ UNCHANGED <<loads, watcher, cleanupAt, now, calls, wf>>

\* a configuration file is deleted: onDidDelete -> clearConnectors
ClearConnectors(f) ==
    /\ MicrotasksDone
    /\ configFiles[f].exists
    /\ configFiles' = [configFiles EXCEPT ![f].exists = FALSE]
    /\ connectors' = loadBuiltinConnectors(EmptyMap)
    /\ workflows' = EmptyMap
    /\ UNCHANGED <<loads, watcher, cleanupAt, responseCache, now, calls, wf>>

\* loadConnectors followed await by await: invocation 0 is the constructor's,
\* invocation n the one the n-th watcher event starts
Loaders == 0..MaxEvents

IdleLoad == [pc |-> "idle", files |-> <<>>]

\* loadConnectors up to "await findFiles(...)"
StartedLoad == [pc |-> "finding", files |-> <<>>]

\* the loop of loadConnectors is over (or its catch block ran): it returns
FinishedLoad == [pc |-> "done", files |-> <<>>]

\* watcher.count and watcher.last are bookkeeping of the model
Delivered(kind) == [count |-> watcher.count + 1, last |-> kind]

\* a configuration file appears: onDidCreate -> loadConnectors
FileCreated(f, content) ==
    /\ watcher.count < MaxEvents
    /\ ~configFiles[f].exists
    /\ configFiles' = [configFiles EXCEPT ![f] =
                           MkFile(TRUE, content.connectors, content.workflows)]
    /\ loads' = [loads EXCEPT ![watcher.count + 1] = StartedLoad]
    /\ watcher' = Delivered("create")
    /\ UNCHANGED <<connectors, workflows, responseCache, now, calls, cleanupAt, wf>>

\* a configuration file is saved with another content: onDidChange -> loadConnectors
FileChanged(f, content) ==
    /\ watcher.count < MaxEvents
    /\ configFiles[f].exists
    /\ configFiles[f] # MkFile(TRUE, content.connectors, content.workflows)
    /\ configFiles' = [configFiles EXCEPT ![f] =
                           MkFile(TRUE, content.connectors, content.workflows)]
    /\ loads' = [loads EXCEPT ![watcher.count + 1] = StartedLoad]
    /\ watcher' = Delivered("change")
    /\ UNCHANGED <<connectors, workflows, responseCache, now, calls, cleanupAt, wf>>

\* a configuration file is deleted: onDidDelete -> clearConnectors
FileDeleted(f) ==
    /\ watcher.count < MaxEvents
    /\ configFiles[f].exists
    /\ configFiles' = [configFiles EXCEPT ![f].exists = FALSE]
    /\ connectors' = loadBuiltinConnectors(EmptyMap)
    /\ workflows' = EmptyMap
    /\ watcher' = Delivered("delete")
    /\ UNCHANGED <<loads, responseCache, now, calls, cleanupAt, wf>>

\* "await vscode.workspace.findFiles(...)" answers with the files on disk now
FindFilesAnswers(l) ==
    /\ loads[l].pc = "finding"
    /\ loads' = [loads EXCEPT ![l] =
                     IF FindFiles = <<>> THEN FinishedLoad
                     ELSE [pc |-> "reading", files |-> FindFiles]]
    /\ UNCHANGED <<connectors, workflows, responseCache, now, calls, configFiles,
                   watcher, cleanupAt, wf>>

\* "await fs.promises.readFile(...)" answers for the next file of the loop:
\* its content is parsed and processed, or it is gone and the catch block
\* ends the load
ReadFileAnswers(l) ==
    /\ loads[l].pc = "reading"
    /\ LET f == Head(loads[l].files)
       IN  IF configFiles[f].exists
           THEN /\ connectors' = SetAll(connectors, configFiles[f].connectors)
                /\ workflows' = SetAll(workflows, configFiles[f].workflows)
                /\ loads' = [loads EXCEPT ![l] =
                                 IF Tail(loads[l].files) = <<>> THEN FinishedLoad
                                 ELSE [pc |-> "reading", files |-> Tail(loads[l].files)]]
           ELSE /\ loads' = [loads EXCEPT ![l] = FinishedLoad]
                /\ UNCHANGED <<connectors, workflows>>
    /\ UNCHANGED <<responseCache, now, calls, configFiles, watcher, cleanupAt, wf>>

\* no loadConnectors invocation is in progress
Quiescent == \A l \in Loaders : loads[l].pc \in {"idle", "done"}

----------------------------------------------------------------------------
(* Workflow definitions *)

MkStep(id, type, connectorId, prompt, condition, onSuccess, onFailure, required) ==
    [id |-> id, name |-> id, type |-> type, connectorId |-> connectorId,
     prompt |-> prompt, condition |-> condition, onSuccess |-> onSuccess,
     onFailure |-> onFailure, required |-> required]

\* what a step of a configured workflow can be, its id apart
StepShapes ==
    {MkStep(Undefined, "connector", "hook", Undefined, Undefined, Undefined, Undefined, r)
        : r \in BOOLEAN}
    \cup {MkStep(Undefined, "connector", "db", Undefined, Undefined, Undefined, Undefined,
                 FALSE)}
    \cup {MkStep(Undefined, "connector", "github", Undefined, Undefined, Undefined,
                 Undefined, TRUE)}
    \cup {MkStep(Undefined, "connector", "files", Undefined, Undefined, Undefined,
                 Undefined, FALSE)}
    \cup {MkStep(Undefined, "connector", Undefined, Undefined, Undefined, Undefined,
                 Undefined, FALSE)}
    \cup {MkStep(Undefined, "ai", Undefined, "summarize", Undefined, Undefined, Undefined,
                 TRUE)}
    \cup {MkStep(Undefined, "user", Undefined, Undefined, Undefined, Undefined, Undefined,
                 TRUE)}
    \cup {MkStep(Undefined, "script", Undefined, Undefined, Undefined, Undefined,
                 Undefined, TRUE)}
    \cup {MkStep(Undefined, "condition", Undefined, Undefined, sh[1], sh[2], sh[3], TRUE)
        : sh \in {<<"true", "c", "a">>, <<"false", "c", "a">>, <<"throw", "c", "a">>,
                  <<"true", "zz", "a">>, <<"false", "c", Undefined>>}}

\* the ids of a workflow's steps, by position: distinct, or one id used twice
StepIdLists == {<<"a", "b", "c">>, <<"a", "b", "a">>, <<"a", "b">>}

WorkflowsOver(ids) ==
    {[i \in 1..Len(ids) |-> [shapes[i] EXCEPT !.id = ids[i], !.name = ids[i]]]
        : shapes \in [1..Len(ids) -> StepShapes]}

\* workflows a .neon-connectors file of the workspace defines (the input)
UserWorkflows ==
    {[id |-> "deploy", name |-> "deploy", steps |-> steps, variables |-> <<>>,
      enabled |-> TRUE]
        : steps \in UNION {WorkflowsOver(ids) : ids \in StepIdLists}}
    \cup {[id |-> "deploy", name |-> "deploy",
           steps |-> << MkStep("a", "user", Undefined, Undefined, Undefined, Undefined,
                               Undefined, TRUE) >>,
           variables |-> <<>>, enabled |-> FALSE]}
    \cup {[id |-> "deploy", name |-> "deploy",
           steps |-> << MkStep("a", "connector", "db", Undefined, Undefined, Undefined,
                               Undefined, r),
                        MkStep("b", "user", Undefined, Undefined, Undefined, Undefined,
                               Undefined, TRUE) >>,
           variables |-> Circular, enabled |-> TRUE] : r \in BOOLEAN}
    \* a definition without a steps list
    \cup {[id |-> "deploy", name |-> "deploy", variables |-> <<>>, enabled |-> TRUE]}

\* ids executeWorkflow is called with; "nope" is never registered
WorkflowIds == {"deploy", "nope"}

\* steps.find(s => s.id === id) / steps.findIndex(...): the first position
\* whose id matches, 0 when there is none (find: undefined, findIndex: -1)
FindIndex(steps, id) ==
    IF \E i \in 1..Len(steps) : steps[i].id = id
    THEN Min({i \in 1..Len(steps) : steps[i].id = id})
    ELSE 0

\* steps[i]?.id with i counted from 1
IdAt(steps, i) == IF i \in 1..Len(steps) THEN steps[i].id ELSE Undefined

\* not the code: an expression that throws counts as true
evaluateCondition_ThrowIsTrue(condition) == condition # "false"

\* evaluateCondition: the expression's value, false when evaluating it throws
evaluateCondition(condition) ==
    IF condition = "throw" THEN FALSE ELSE condition = "true"

----------------------------------------------------------------------------
(* The workflow engine: executeWorkflow *)

\* wf.executed is the positions of the steps run so far, in order; it is
\* bookkeeping of the model, the code holds no such list
IdleRun ==
    [pc |-> "idle", workflow |-> Undefined, currentStepId |-> Undefined,
     stepIndex |-> 0, results |-> <<>>, executed |-> <<>>, response |-> NoEnvelope]

StepEntry(step, stepResult) ==
    [stepId |-> step.id, stepName |-> step.name, result |-> stepResult]

\* "results.push(entry)".  The model keeps the first MaxIterations entries
\* of the log of a run: a run that executes more steps goes on, and what it
\* pushes after them is not recorded
Push(log, entry) ==
    IF Len(log) < MaxIterations THEN Append(log, entry) ELSE log

\* not the code: the halting rule is left out
AfterStep_NoHalt(run, step, stepResult) ==
    [run EXCEPT !.pc = "loop",
                !.results = Push(run.results, StepEntry(step, stepResult)),
                !.executed = Push(run.executed, run.stepIndex),
                !.currentStepId =
                    IdAt(run.workflow.steps,
                         FindIndex(run.workflow.steps, run.currentStepId) + 1)]

\* "results.push(...)" and what follows it for a step that is no condition:
\* the halting rule, else the move to the next step
AfterStep(run, step, stepResult) ==
    LET results == Push(run.results, StepEntry(step, stepResult))
        pushed == [run EXCEPT !.results = results,
                              !.executed = Push(run.executed, run.stepIndex)]
        currentIndex == FindIndex(run.workflow.steps, run.currentStepId)
    IN  IF ~stepResult.success /\ step.required
        THEN [pushed EXCEPT !.pc = "returned",
                            !.response = Envelope(FALSE, results,
                                                  "Required step failed", Absent)]
        ELSE [pushed EXCEPT !.pc = "loop",
                            !.currentStepId = IdAt(run.workflow.steps, currentIndex + 1)]

\* not the code: a condition step advances by position like the others
AfterCondition_Positional(run, step) ==
    [run EXCEPT !.pc = "loop",
                !.currentStepId = IdAt(run.workflow.steps, run.stepIndex + 1),
                !.results = Push(run.results, StepEntry(step,
                    Envelope(TRUE, <<"result", step.condition = "true">>, Undefined,
                             Absent))),
                !.executed = Push(run.executed, run.stepIndex)]

\* not the code: the result of a condition step succeeds when its expression
\* is true, and the halting rule applies to it
AfterCondition_ByValue(run, step) ==
    LET conditionResult == evaluateCondition(step.condition)
        stepResult == Envelope(conditionResult, <<"result", conditionResult>>,
                               Undefined, Absent)
        halted == AfterStep(run, step, stepResult)
    IN  IF halted.pc = "returned" THEN halted
        ELSE [halted EXCEPT !.currentStepId = IF conditionResult THEN step.onSuccess
                                              ELSE step.onFailure]

\* not the code: a condition step whose pointer names no step of the workflow
\* is followed by the step at the next position
AfterCondition_FallsThrough(run, step) ==
    LET conditionResult == evaluateCondition(step.condition)
        pointer == IF conditionResult THEN step.onSuccess ELSE step.onFailure
        stepResult == Envelope(TRUE, <<"result", conditionResult>>, Undefined, Absent)
    IN  [run EXCEPT !.pc = "loop",
                    !.currentStepId =
                        IF FindIndex(run.workflow.steps, pointer) # 0 THEN pointer
                        ELSE IdAt(run.workflow.steps, run.stepIndex + 1),
                    !.results = Push(run.results, StepEntry(step, stepResult)),
                    !.executed = Push(run.executed, run.stepIndex)]

\* "case 'condition'": evaluate, push, navigate, continue
AfterCondition(run, step) ==
    LET conditionResult ==
            evaluateCondition(IF step.condition = Undefined THEN "true"
                              ELSE step.condition)
        stepResult == Envelope(TRUE, <<"result", conditionResult>>, Undefined, Absent)
    IN  [run EXCEPT !.pc = "loop",
                    !.currentStepId = IF conditionResult THEN step.onSuccess
                                      ELSE step.onFailure,
                    !.results = Push(run.results, StepEntry(step, stepResult)),
                    !.executed = Push(run.executed, run.stepIndex)]

\* "return { success: true, data: { workflowResults: results }, ... }"
Completed(run) ==
    [run EXCEPT !.pc = "returned",
                !.response = Envelope(TRUE, run.results, Undefined, run.workflow.name)]

\* executeWorkflow up to its while loop
ExecuteWorkflow(workflowId) ==
    /\ wf.pc = "idle"
    /\ wf' =
        IF workflowId \notin DOMAIN workflows
        THEN [IdleRun EXCEPT !.pc = "returned",
                 !.response = Envelope(FALSE, Undefined, "Workflow not found", Absent)]
        ELSE IF ~workflows[workflowId].enabled
        THEN [IdleRun EXCEPT !.pc = "returned",
                 !.response = Envelope(FALSE, Undefined, "Workflow is disabled", Absent)]
        ELSE IF "steps" \notin DOMAIN workflows[workflowId]
        THEN [IdleRun EXCEPT !.pc = "rejected"]   \* workflow.steps[0]: TypeError
        ELSE [IdleRun EXCEPT !.pc = "loop", !.workflow = workflows[workflowId],
                 !.currentStepId = IdAt(workflows[workflowId].steps, 1)]
    /\ UNCHANGED <<loads, watcher, cleanupAt, connectors, workflows, responseCache, now, calls, configFiles>>

\* not the code: every step passes params of its own to the executor
ConnectorStepRequest_OwnParams(step, workflow) ==
    <<step.connectorId, "run", << <<"step", step.id>> >> >>

\* "this.executeConnector(step.connectorId, 'run', workflow.variables, context)":
\* the connectorId, action and params of a connector step's call
ConnectorStepRequest(step, workflow) ==
    <<step.connectorId, "run", workflow.variables>>

\* one iteration of "while (currentStepId)", up to its await if it has one
WfIteration ==
    /\ wf.pc = "loop"
    /\ LET index == FindIndex(wf.workflow.steps, wf.currentStepId)
           step == wf.workflow.steps[index]
           run == [wf EXCEPT !.stepIndex = index]
       IN  IF wf.currentStepId \in {Undefined, ""} \/ index = 0
           THEN /\ wf' = Completed(wf)
                /\ UNCHANGED calls
           ELSE CASE step.type = "connector" /\ step.connectorId # Undefined ->
                       /\ wf' = [run EXCEPT !.pc = "awaitConnector"]
                       /\ LET request == ConnectorStepRequest(step, wf.workflow)
                          IN  calls' = [calls EXCEPT ![WfCall] =
                                  Invoke(request[1], request[2], request[3])]
                  [] step.type = "connector" /\ step.connectorId = Undefined ->
                       /\ wf' = AfterStep(run, step,
                               Envelope(FALSE, Undefined, "No connector specified", Absent))
                       /\ UNCHANGED calls
                  [] step.type = "ai" /\ step.prompt # Undefined ->
                       /\ wf' = [run EXCEPT !.pc = "awaitAI"]
                       /\ UNCHANGED calls
                  [] step.type = "ai" /\ step.prompt = Undefined ->
                       /\ wf' = AfterStep(run, step,
                               Envelope(FALSE, Undefined, "No prompt specified", Absent))
                       /\ UNCHANGED calls
                  [] step.type = "condition" ->
                       /\ wf' = AfterCondition(run, step)
                       /\ UNCHANGED calls
                  [] step.type = "user" ->
                       /\ wf' = AfterStep(run, step,
                               Envelope(TRUE, "approved", Undefined, Absent))
                       /\ UNCHANGED calls
                  [] OTHER ->
                       /\ wf' = AfterStep(run, step,
                               Envelope(FALSE, Undefined, "Unknown step type", Absent))
                       /\ UNCHANGED calls
    \* no call of the run is in progress between two iterations
    /\ connectors' = RegistryAfter(calls'[WfCall])
    /\ UNCHANGED <<loads, watcher, cleanupAt, workflows, responseCache, now, configFiles>>

\* "catch (error)" of the loop body: the run ends, the step is not recorded
Caught(run) ==
    [run EXCEPT !.pc = "returned",
                !.response = Envelope(FALSE, run.results,
                                      "Workflow execution failed at step", Absent)]

\* "stepResult = await this.executeConnector(...)" returns or throws
WfConnectorReturns ==
    /\ wf.pc = "awaitConnector"
    /\ calls[WfCall].pc \in {"returned", "rejected"}
    /\ wf' = IF calls[WfCall].pc = "rejected" THEN Caught(wf)
             ELSE AfterStep(wf, wf.workflow.steps[wf.stepIndex], calls[WfCall].response)
    /\ calls' = [calls EXCEPT ![WfCall] = IdleFrame]
    /\ UNCHANGED <<loads, watcher, cleanupAt, connectors, workflows, responseCache, now, configFiles>>

\* "await this.aiProvider.getCodeCompletion(...)" settles
WfAIReturns(outcome) ==
    /\ wf.pc = "awaitAI"
    /\ wf' = AfterStep(wf, wf.workflow.steps[wf.stepIndex],
                       IF outcome = "ok"
                       THEN Envelope(TRUE, "aiResponse", Undefined, Absent)
                       ELSE Envelope(FALSE, Undefined, "AI step failed", Absent))
    /\ UNCHANGED <<loads, watcher, cleanupAt, connectors, workflows, responseCache, now, calls, configFiles>>

----------------------------------------------------------------------------
(* Specifications *)

\* the constructor has run: loadConnectors awaits findFiles, the built-ins
\* are registered, nothing is cached
InitCommon ==
    /\ connectors = loadBuiltinConnectors(EmptyMap)
    /\ workflows = EmptyMap
    /\ responseCache = EmptyMap
    /\ now = 0
    /\ cleanupAt = CleanupInterval
    /\ watcher = [count |-> 0, last |-> "none"]
    /\ calls = [c \in CallSlots |-> IdleFrame]
    /\ wf = IdleRun

\* the executor under external callers; the workspace has a configuration file
Init ==
    /\ InitCommon
    /\ loads = [l \in Loaders |-> IdleLoad]
    /\ configFiles = [f \in {ConfigFileNames[1], ConfigFileNames[2]} |->
                         IF f = ConfigFileNames[1] THEN MkFile(TRUE, UserConnectors, <<>>)
                         ELSE NoFile]

\* every event that can settle the dispatch of call c
DispatchEvent(c) ==
    \/ Resume(c)
    \/ TimeoutFires(c)
    \/ \E statusCode \in StatusCodes : ResponseHeaders(c, statusCode)
    \/ \E data \in Bodies : ResponseEnd(c, data)
    \/ RequestError(c)
    \/ \E outcome \in IOOutcomes : ExecExit(c, outcome)
    \/ \E outcome \in IOOutcomes : FsDone(c, outcome)

\* the clock stops at MaxNow, where the first cache sweep is due: it would
\* find no entry older than maxAge; the sweep is followed under SpecSweep
Next ==
    \/ \E c \in ExternalCalls, r \in Requests : ExecuteConnector(c, r[1], r[2], r[3])
    \/ \E c \in ExternalCalls : DispatchEvent(c)
    \/ Tick
    \/ \E connectorId \in ToggleIds : ToggleConnector(connectorId)
    \/ LoadConnectors
    \/ \E f \in DOMAIN configFiles : ClearConnectors(f)

Spec == Init /\ [][Next]_vars

\* one workflow run, followed over the outcomes of its steps: the configuration
\* file defines any of UserWorkflows, and every operation a step awaits is
\* answered before the clock advances (timeouts are followed under Spec)
InitWF ==
    /\ InitCommon
    /\ loads = [l \in Loaders |-> IdleLoad]
    /\ \E w \in UserWorkflows :
          configFiles = [f \in {ConfigFileNames[1], ConfigFileNames[2]} |->
                            IF f = ConfigFileNames[1] THEN MkFile(TRUE, UserConnectors, <<w>>)
                            ELSE NoFile]

NextWF ==
    \/ \E workflowId \in WorkflowIds : ExecuteWorkflow(workflowId)
    \/ WfIteration
    \/ WfConnectorReturns
    \/ \E outcome \in IOOutcomes : WfAIReturns(outcome)
    \/ Resume(WfCall)
    \/ \E statusCode \in StatusCodes : ResponseHeaders(WfCall, statusCode)
    \/ \E data \in Bodies : ResponseEnd(WfCall, data)
    \/ RequestError(WfCall)
    \/ LoadConnectors

SpecWF == InitWF /\ [][NextWF]_vars

\* the same run when every operation a step awaits is answered and the
\* engine keeps running: some step of the run is taken whenever one is possible
SpecWFFair == SpecWF /\ WF_vars(NextWF)

\* the executor on the api connectors, which send HTTP requests with the
\* configured headers: with and without a body, with authentication
NetworkRequests ==
    { <<"github", "get", NoParams>>, <<"github", "post", NoParams>>,
      <<"github", "read", NoParams>>, <<"tracker", "get", NoParams>> }

NextNetwork ==
    \/ \E c \in ExternalCalls, r \in NetworkRequests :
          ExecuteConnector(c, r[1], r[2], r[3])
    \/ \E c \in ExternalCalls :
          \/ Resume(c)
          \/ TimeoutFires(c)
          \/ \E statusCode \in StatusCodes : ResponseHeaders(c, statusCode)
          \/ \E data \in Bodies : ResponseEnd(c, data)
          \/ RequestError(c)
    \/ Tick
    \/ \E connectorId \in ToggleIds : ToggleConnector(connectorId)
    \/ LoadConnectors
    \/ \E f \in DOMAIN configFiles : ClearConnectors(f)

SpecNetwork == Init /\ [][NextNetwork]_vars

\* the executor on reads and on calls with side effects: a file is read,
\* written and appended to through one connector, a request with a body is
\* sent, a webhook is called
NewContent == << <<"content", "new">> >>

SideEffectRequests ==
    { <<"files", "read", NoParams>>, <<"files", "write", NewContent>>,
      <<"files", "append", NewContent>>, <<"github", "post", NoParams>>,
      <<"hook", "get", NoParams>> }

NextSideEffects ==
    \/ \E c \in ExternalCalls, r \in SideEffectRequests :
          ExecuteConnector(c, r[1], r[2], r[3])
    \/ \E c \in ExternalCalls :
          \/ TimeoutFires(c)
          \/ \E statusCode \in StatusCodes : ResponseHeaders(c, statusCode)
          \/ \E data \in Bodies : ResponseEnd(c, data)
          \/ RequestError(c)
          \/ \E outcome \in IOOutcomes : FsDone(c, outcome)
    \/ Tick
    \/ LoadConnectors

SpecSideEffects == Init /\ [][NextSideEffects]_vars

\* the registry under file watcher events: two configuration files, one of
\* which redefines the built-in github connector

GithubEnterprise ==
    MkConnector("github", "api",
        MkConfig("https://ghe.example.test/api/v3", Undefined, Undefined, Undefined,
                 10000, 3),
        TRUE, 100)

Notify ==
    [id |-> "notify", name |-> "notify",
     steps |-> << MkStep("a", "user", Undefined, Undefined, Undefined, Undefined,
                         Undefined, TRUE) >>,
     variables |-> <<>>, enabled |-> TRUE]

\* what a configuration file can define
FileContents ==
    { [connectors |-> <<GithubEnterprise, UserConnectors[1]>>, workflows |-> <<>>],
      [connectors |-> <<UserConnectors[2]>>, workflows |-> <<Notify>>],
      [connectors |-> <<>>, workflows |-> <<>>] }

\* the constructor has run: loadConnectors awaits findFiles, the built-ins
\* are registered; the first file is on disk, the second may be
InitRegistry ==
    /\ InitCommon
    /\ loads = [l \in Loaders |-> IF l = 0 THEN StartedLoad ELSE IdleLoad]
    /\ \E second \in {NoFile, MkFile(TRUE, <<UserConnectors[2]>>, <<Notify>>)} :
          configFiles = [f \in {ConfigFileNames[1], ConfigFileNames[2]} |->
                            IF f = ConfigFileNames[1]
                            THEN MkFile(TRUE, <<GithubEnterprise, UserConnectors[1]>>, <<>>)
                            ELSE second]

NextRegistry ==
    \/ \E f \in DOMAIN configFiles, content \in FileContents : FileCreated(f, content)
    \/ \E f \in DOMAIN configFiles, content \in FileContents : FileChanged(f, content)
    \/ \E f \in DOMAIN configFiles : FileDeleted(f)
    \/ \E l \in Loaders : FindFilesAnswers(l)
    \/ \E l \in Loaders : ReadFileAnswers(l)

SpecRegistry == InitRegistry /\ [][NextRegistry]_vars

\* the executor while the registry is rebuilt: callers repeat one request to
\* the github connector, which configuration files redefine with another
\* endpoint or as a command-line tool, and which clearConnectors turns back
\* into the built-in
GithubCli ==
    MkConnector("github", "cli",
        MkConfig(Undefined, Undefined, "gh", Undefined, 10000, 3), TRUE, 100)

RebuildRequests == { <<"github", "get", NoParams>>, <<"github", "get", PingParams>> }

\* the built-ins are registered; the configuration file, not loaded yet,
\* redefines github
InitRebuild ==
    /\ InitCommon
    /\ loads = [l \in Loaders |-> IdleLoad]
    /\ \E github \in {GithubEnterprise, GithubCli} :
          configFiles = [f \in {ConfigFileNames[1], ConfigFileNames[2]} |->
                            IF f = ConfigFileNames[1] THEN MkFile(TRUE, <<github>>, <<>>)
                            ELSE NoFile]

NextRebuild ==
    \/ \E c \in ExternalCalls, r \in RebuildRequests :
          ExecuteConnector(c, r[1], r[2], r[3])
    \/ \E c \in ExternalCalls :
          \/ TimeoutFires(c)
          \/ \E statusCode \in StatusCodes : ResponseHeaders(c, statusCode)
          \/ \E data \in Bodies : ResponseEnd(c, data)
          \/ RequestError(c)
          \/ \E outcome \in IOOutcomes : ExecExit(c, outcome)
    \/ Tick
    \/ LoadConnectors
    \/ \E f \in DOMAIN configFiles : ClearConnectors(f)

SpecRebuild == InitRebuild /\ [][NextRebuild]_vars

\* the cache over several minutes: callers repeat requests to the database
\* connector, whose strategy answers at once, while the clock runs past maxAge
SweepRequests == {r \in Requests : r[1] = "db"}

NextSweep ==
    \/ \E c \in ExternalCalls, r \in SweepRequests : ExecuteConnector(c, r[1], r[2], r[3])
    \/ \E c \in ExternalCalls : Resume(c)
    \/ TickSweep
    \/ Sweep
    \/ LoadConnectors

\* timers fire and continuations run when they are due; time passes
FairSweep ==
    /\ WF_vars(Sweep)
    /\ WF_vars(TickSweep)
    /\ \A c \in ExternalCalls : WF_vars(Resume(c))

SpecSweep == Init /\ [][NextSweep]_vars /\ FairSweep

----------------------------------------------------------------------------
(* Properties of the executor, checked under Spec *)

RequestOf(c) == <<calls[c].connectorId, calls[c].action, calls[c].params>>

KeyOf(c) == CacheKey(calls[c].connectorId, calls[c].action, calls[c].params)

\* how many times a dispatch strategy was invoked for the cache key of call c
DispatchCount(c) ==
    Cardinality({x \in CallSlots : calls[x].dispatched /\ KeyOf(x) = KeyOf(c)})

\* call c returned the envelope of a registered, enabled connector
ReachedConnector(c) ==
    /\ calls[c].pc = "returned"
    /\ calls[c].response.error \notin {"Connector not found", "Connector is disabled"}

(* C1: of two executeConnector calls with the same connectorId, action and
   params on an enabled connector, the second issued less than 60 seconds
   after the first (after it returned or while it still awaits its dispatch),
   the first succeeding: the second returns cached = true and the dispatch
   strategy was invoked at most once for them. *)
C1_SecondCallCachedOneDispatch ==
    \A a \in ExternalCalls, b \in ExternalCalls :
        ( /\ a < b
          /\ ReachedConnector(a)
          /\ ReachedConnector(b)
          /\ RequestOf(a) = RequestOf(b)
          /\ calls[b].issuedAt - calls[a].issuedAt < CacheTTL
          /\ calls[a].response.success )
        => /\ calls[b].response.cached
           /\ DispatchCount(a) <= 1

(* C2: no executeConnector call is still pending after the configured
   timeout of its connector has elapsed since its dispatch, whatever the
   strategy. *)
C2_NoCallPendingPastTimeout ==
    \A c \in ExternalCalls :
        (calls[c].pc = "awaiting" /\ calls[c].configured # Absent)
        => now - calls[c].startTime <= calls[c].configured

\* a call was made, returned a failed dispatch, and a later call repeated it
FailedThenRepeated(a, b) ==
    /\ calls[a].pc = "returned"
    /\ calls[a].dispatched
    /\ ~calls[a].response.success
    /\ calls[b].pc # "idle"
    /\ RequestOf(b) = RequestOf(a)
    /\ calls[b].issuedAt > calls[a].startTime + calls[a].response.duration

\* some call other than a dispatched the request of call a and succeeded
SucceededElsewhere(a) ==
    \E x \in ExternalCalls :
        /\ x # a
        /\ RequestOf(x) = RequestOf(a)
        /\ calls[x].dispatched
        /\ calls[x].pc = "returned"
        /\ calls[x].response.success

(* C7: every entry of the response cache holds an envelope with
   success = true, and no call is answered from the cache with a failed
   envelope; the call that repeats a failed call dispatches again, unless
   another call of the same request has succeeded and filled the cache. *)
C7_CacheHoldsOnlySuccesses ==
    /\ \A key \in DOMAIN responseCache : responseCache[key].response.success
    /\ \A c \in ExternalCalls :
          (calls[c].pc = "returned" /\ calls[c].response.cached)
          => calls[c].response.success
    /\ \A a \in ExternalCalls, b \in ExternalCalls :
          (FailedThenRepeated(a, b) /\ calls[b].pc = "returned" /\ ReachedConnector(b))
          => calls[b].dispatched \/ SucceededElsewhere(a)

\* a failed call was repeated and dispatched again, next to a cached success
C7_Witness ==
    /\ responseCache # EmptyMap
    /\ \E a \in ExternalCalls, b \in ExternalCalls :
          FailedThenRepeated(a, b) /\ calls[b].dispatched

\* call c is being made in this step
Invoked(c) == calls[c].pc = "idle" /\ calls'[c].pc # "idle"

(* C8: executeConnector on a connector whose enabled flag is false returns
   success = false with the disabled error and dispatches nothing, whatever
   the action, the params and the cache hold. *)
C8_DisabledConnectorRejected ==
    [][\A c \in ExternalCalls :
          ( /\ Invoked(c)
            /\ calls'[c].connectorId \in DOMAIN connectors
            /\ ~connectors[calls'[c].connectorId].enabled )
          => /\ calls'[c].pc = "returned"
             /\ calls'[c].response =
                    Envelope(FALSE, Undefined, "Connector is disabled", Absent)
             /\ ~calls'[c].dispatched
             /\ calls'[c].io = "none"
             /\ responseCache' = responseCache]_vars

\* a disabled connector was invoked while the cache held an entry younger
\* than 60 seconds, stored before the call, for the same request
C8_Witness ==
    \E c \in ExternalCalls :
        /\ calls[c].pc = "returned"
        /\ calls[c].response.error = "Connector is disabled"
        /\ KeyOf(c) \in DOMAIN responseCache
        /\ responseCache[KeyOf(c)].timestamp < calls[c].issuedAt
        /\ calls[c].issuedAt - responseCache[KeyOf(c)].timestamp < CacheTTL

(* C9: executeConnector with a connector id that is not registered returns
   success = false with the not-found error, dispatches nothing and leaves
   registry and cache as they were. *)
C9_UnknownConnectorRejected ==
    [][\A c \in ExternalCalls :
          (Invoked(c) /\ calls'[c].connectorId \notin DOMAIN connectors)
          => /\ calls'[c].pc = "returned"
             /\ calls'[c].response =
                    Envelope(FALSE, Undefined, "Connector not found", Absent)
             /\ ~calls'[c].dispatched
             /\ calls'[c].io = "none"
             /\ connectors' = connectors
             /\ workflows' = workflows
             /\ responseCache' = responseCache]_vars

\* an id no longer registered was invoked while the cache held a fresh entry,
\* stored before the call, of an earlier call to it
C9_Witness ==
    \E c \in ExternalCalls :
        /\ calls[c].pc = "returned"
        /\ calls[c].response.error = "Connector not found"
        /\ calls[c].connectorId \notin DOMAIN connectors
        /\ KeyOf(c) \in DOMAIN responseCache
        /\ responseCache[KeyOf(c)].timestamp < calls[c].issuedAt
        /\ calls[c].issuedAt - responseCache[KeyOf(c)].timestamp < CacheTTL

(* C10: every failed envelope executeConnector or executeWorkflow returns,
   and every failed step result of a workflow log, carries an error message. *)
C10_FailureCarriesError ==
    /\ \A c \in CallSlots :
          (calls[c].pc = "returned" /\ ~calls[c].response.success)
          => calls[c].response.error # Undefined
    /\ (wf.pc = "returned" /\ ~wf.response.success) => wf.response.error # Undefined
    /\ \A k \in 1..Len(wf.results) :
          ~wf.results[k].result.success => wf.results[k].result.error # Undefined

----------------------------------------------------------------------------
(* Properties of the workflow engine, checked under SpecWF *)

\* the step that ran k-th in the run
ExecutedStep(k) == wf.workflow.steps[wf.executed[k]]

\* the k-th step result is the failure of a required step
FailedRequired(k) == ~wf.results[k].result.success /\ ExecutedStep(k).required

(* C3: when a required step fails the run halts at once with success = false:
   the log holds one entry per step executed, in execution order, the failed
   required step is its last entry and no step runs after it. *)
C3_RequiredFailureHalts ==
    /\ Len(wf.results) = Len(wf.executed)
    /\ \A k \in 1..Len(wf.results) :
          /\ wf.results[k].stepId = ExecutedStep(k).id
          /\ FailedRequired(k)
             => /\ k = Len(wf.results)
                /\ wf.pc = "returned"
                /\ ~wf.response.success
                /\ wf.response.data = wf.results

\* steps [A(required, fails), B]: the run returned with the one entry for A
C3_Witness ==
    /\ wf.pc = "returned"
    /\ Len(wf.results) = 1
    /\ FailedRequired(1)
    /\ wf.executed = <<1>>
    /\ Len(wf.workflow.steps) >= 2

(* C4: the step that runs after a step that is no condition is the one at
   the next array position, also when two steps share an id. *)
C4_NextStepIsPositional ==
    \A k \in 1..(Len(wf.executed) - 1) :
        ExecutedStep(k).type # "condition" => wf.executed[k + 1] = wf.executed[k] + 1

\* the pointer a condition step is to follow, by the value of its expression
Pointer(step) == IF step.condition = "true" THEN step.onSuccess ELSE step.onFailure

\* the log of the run holds every step the run has executed
LogComplete == Len(wf.executed) < MaxIterations

(* C5: after a condition step the run goes to the step named by onSuccess
   when the expression is true and by onFailure when it is false, never to
   the next array position. *)
C5_ConditionNavigates ==
    \A k \in 1..Len(wf.executed) :
        (ExecutedStep(k).type = "condition"
            /\ ExecutedStep(k).condition \in {"true", "false"})
        => /\ wf.results[k].result.data = <<"result", ExecutedStep(k).condition = "true">>
           /\ k < Len(wf.executed) => ExecutedStep(k + 1).id = Pointer(ExecutedStep(k))
           /\ (k = Len(wf.executed) /\ LogComplete)
              => wf.currentStepId = Pointer(ExecutedStep(k))

\* a true condition was followed by the step its onSuccess names, which is
\* not at the next array position
C5_Witness ==
    \E k \in 1..(Len(wf.executed) - 1) :
        /\ ExecutedStep(k).type = "condition"
        /\ ExecutedStep(k).condition = "true"
        /\ ExecutedStep(k + 1).id = ExecutedStep(k).onSuccess
        /\ wf.executed[k + 1] # wf.executed[k] + 1

\* the step the loop is about to run is a condition whose expression throws
AtThrowingCondition ==
    /\ wf.pc = "loop"
    /\ FindIndex(wf.workflow.steps, wf.currentStepId) # 0
    /\ wf.workflow.steps[FindIndex(wf.workflow.steps, wf.currentStepId)].type = "condition"
    /\ wf.workflow.steps[FindIndex(wf.workflow.steps, wf.currentStepId)].condition = "throw"

(* C6: a condition step whose expression throws leaves the run in exactly
   the state a false expression leaves it in: the same step result, the move
   to onFailure, no failure of the run. *)
C6_ThrowingConditionIsFalse ==
    [][(AtThrowingCondition /\ wf' # wf)
       => LET index == FindIndex(wf.workflow.steps, wf.currentStepId)
              step == wf.workflow.steps[index]
          IN  /\ wf' = AfterCondition([wf EXCEPT !.stepIndex = index],
                                      [step EXCEPT !.condition = "false"])
              /\ wf'.currentStepId = step.onFailure
              /\ wf'.pc = "loop"]_vars

\* a throwing condition ran and the step its onFailure names ran after it
C6_Witness ==
    \E k \in 1..(Len(wf.executed) - 1) :
        /\ ExecutedStep(k).type = "condition"
        /\ ExecutedStep(k).condition = "throw"
        /\ ExecutedStep(k + 1).id = ExecutedStep(k).onFailure

----------------------------------------------------------------------------
(* Error handling *)

(* C11: no executeConnector call and no executeWorkflow run ends in a
   rejected promise: whatever the input, the call resolves to an envelope. *)
C11_NoExceptionCrossesBoundary ==
    /\ \A c \in ExternalCalls : calls[c].pc # "rejected"
    /\ wf.pc # "rejected"

----------------------------------------------------------------------------
(* The response cache *)

\* when call a returned: the time its envelope was stored, if it was
ReturnedAt(a) == calls[a].startTime + calls[a].response.duration

\* call a dispatched and succeeded, b made the same request, and no other
\* call dispatched that request
StoredThenRead(a, b) ==
    /\ a # b
    /\ calls[a].pc = "returned" /\ calls[a].dispatched /\ calls[a].response.success
    /\ calls[b].pc = "returned" /\ ~calls[b].dispatched
    /\ RequestOf(b) = RequestOf(a)
    /\ \A x \in ExternalCalls \ {a, b} : RequestOf(x) # RequestOf(a)

(* C12: an envelope read from the cache equals the envelope that was stored
   (data, error, duration, metadata) with cached = true as the only
   difference, and a read less than 60 seconds after the store is a hit. *)
C12_CacheRoundTrip ==
    \A a \in ExternalCalls, b \in ExternalCalls :
        StoredThenRead(a, b)
        => /\ calls[b].response.cached
              => calls[b].response = [calls[a].response EXCEPT !.cached = TRUE]
           /\ ( /\ ReachedConnector(b)
                /\ calls[b].issuedAt > ReturnedAt(a)
                /\ calls[b].issuedAt - ReturnedAt(a) < CacheTTL )
              => calls[b].response.cached

\* a response that took time to arrive was stored, and read back later
C12_Witness ==
    \E a \in ExternalCalls, b \in ExternalCalls :
        /\ StoredThenRead(a, b)
        /\ calls[b].response.cached
        /\ calls[a].response.duration > 0
        /\ calls[a].strategy = "api"
        /\ calls[b].issuedAt > ReturnedAt(a)

\* two params objects hold the same keys with the same values
LogicallyEqual(p, q) ==
    {p[i] : i \in 1..Len(p)} = {q[i] : i \in 1..Len(q)}

\* call b repeats call a (logically equal params) after a succeeded and
\* less than 60 seconds after a's envelope was stored
RepeatsWithin(a, b) ==
    /\ calls[a].pc = "returned" /\ calls[a].dispatched /\ calls[a].response.success
    /\ ReachedConnector(b)
    /\ calls[b].connectorId = calls[a].connectorId
    /\ calls[b].action = calls[a].action
    /\ LogicallyEqual(calls[b].params, calls[a].params)
    /\ calls[b].issuedAt > ReturnedAt(a)
    /\ calls[b].issuedAt - ReturnedAt(a) < CacheTTL

(* C13: a call whose params are logically equal to those of a successful
   call made less than 60 seconds before (same keys and values, in any
   insertion order) is a cache hit. *)
C13_KeyIgnoresInsertionOrder ==
    \A a \in ExternalCalls, b \in ExternalCalls :
        RepeatsWithin(a, b) => calls[b].response.cached

\* the cache keys the requests can produce
RequestKeys == {CacheKey(r[1], r[2], r[3]) : r \in Requests}

\* the entry under key is older than maxAge
Expired(key) ==
    key \in DOMAIN responseCache /\ now - responseCache[key].timestamp > MaxAge

(* C14: an entry whose age exceeds 5 minutes is eventually gone, whether it
   is read or not, and an entry that leaves the cache was older than
   5 minutes (entries leave the cache by the sweep only). *)
C14_SweepEvictsOldEntriesOnly ==
    /\ \A key \in RequestKeys : Expired(key) ~> ~Expired(key)
    /\ [][\A key \in DOMAIN responseCache :
              key \notin DOMAIN responseCache'
              => now - responseCache[key].timestamp > MaxAge]_vars

\* an envelope was stored, more than maxAge has passed and its entry is gone
C14_Witness ==
    \E c \in ExternalCalls :
        /\ calls[c].pc = "returned" /\ calls[c].dispatched /\ calls[c].response.success
        /\ now - ReturnedAt(c) > MaxAge
        /\ KeyOf(c) \notin DOMAIN responseCache

----------------------------------------------------------------------------
(* The registry *)

(* C15: every step of an executeConnector call (the call itself, the events
   that settle its dispatch, its return) leaves the registered connectors
   unchanged, their config and headers included. *)
C15_ExecutorLeavesRegistryUnchanged ==
    [][calls' # calls => connectors' = connectors]_vars

\* the ids loadBuiltinConnectors registers
BuiltinIds == {BuiltinConnectors[i].id : i \in 1..Len(BuiltinConnectors)}

(* C16: when a reload started by a create or change event has completed,
   the registry holds exactly the built-in connectors plus the connectors
   and workflows the configuration files define now. *)
C16_ReloadRebuildsRegistry ==
    (Quiescent /\ watcher.last \in {"create", "change"})
    => /\ connectors =
              ProcessFiles(loadBuiltinConnectors(EmptyMap), FindFiles, "connectors")
       /\ workflows = ProcessFiles(EmptyMap, FindFiles, "workflows")

(* C17: once startup and every watcher event have been processed, every
   built-in id is registered, and an id that a configuration file on disk
   also defines is registered with the file's definition. *)
C17_BuiltinsPresentUserWins ==
    Quiescent
    => /\ BuiltinIds \subseteq DOMAIN connectors
       /\ \A f \in DOMAIN configFiles :
             configFiles[f].exists
             => \A i \in 1..Len(configFiles[f].connectors) :
                   configFiles[f].connectors[i].id \in BuiltinIds
                   => connectors[configFiles[f].connectors[i].id]
                          = configFiles[f].connectors[i]

----------------------------------------------------------------------------
(* Completion of a workflow run *)

\* executeWorkflow found the workflow enabled and its run has ended
RunEnded ==
    /\ wf.pc = "returned"
    /\ wf.response.error \notin {"Workflow not found", "Workflow is disabled"}

\* the k-th step result is the failure of an optional step
FailedOptional(k) == ~wf.results[k].result.success /\ ~ExecutedStep(k).required

(* C18: a run that has ended without the failure of a required step is
   completed (success = true, data.workflowResults the log of the run);
   every optional step that failed is in the log with its failed envelope,
   and the step at the next array position ran after it, the run ending
   after it only when it was the last step. *)
C18_OptionalFailuresDoNotStopTheRun ==
    /\ (RunEnded /\ \A k \in 1..Len(wf.results) : ~FailedRequired(k))
       => /\ wf.response.success
          /\ wf.response.data = wf.results
    /\ \A k \in 1..Len(wf.results) :
          FailedOptional(k)
          => /\ wf.results[k].stepId = ExecutedStep(k).id
             /\ k < Len(wf.executed) => wf.executed[k + 1] = wf.executed[k] + 1
             /\ (k = Len(wf.executed) /\ wf.pc = "returned")
                => wf.executed[k] = Len(wf.workflow.steps)

----------------------------------------------------------------------------
(* Timeouts of network requests *)

\* call c returned the envelope of the timeout callback
TimedOut(c) ==
    /\ calls[c].pc = "returned"
    /\ calls[c].response.error \in {"Request timeout", "Webhook timeout"}

\* in this step the timer of call c fires while no response has arrived
TimerFires(c) ==
    /\ calls[c].io = "request" /\ calls[c].timer # Absent
    /\ calls'[c].io = "request" /\ calls'[c].timer = Absent

(* C19: when the timer of an api or webhook request fires before the
   response, the call returns a failed envelope with the timeout error and
   nothing is cached; whatever arrives for the request afterwards leaves the
   returned envelope and the cache as they are. *)
C19_TimeoutIsFinal ==
    [][\A c \in ExternalCalls :
          /\ TimerFires(c)
             => /\ calls'[c].pc = "returned"
                /\ ~calls'[c].response.success
                /\ calls'[c].response.error \in {"Request timeout", "Webhook timeout"}
                /\ responseCache' = responseCache
          /\ TimedOut(c)
             => /\ calls'[c].pc = "returned"
                /\ calls'[c].response = calls[c].response
                /\ calls'[c] # calls[c] => responseCache' = responseCache]_vars

\* a call timed out, then the response arrived with status 200: the call
\* keeps its timeout envelope and nothing was cached
C19_Witness ==
    \E c \in ExternalCalls :
        /\ TimedOut(c)
        /\ calls[c].io = "body"
        /\ calls[c].status = 200
        /\ KeyOf(c) \notin DOMAIN responseCache

(* C20: once executeConnector has returned the timeout envelope of an api or
   webhook request, that request is no longer in flight. *)
C20_TimeoutAbortsRequest ==
    \A c \in ExternalCalls : TimedOut(c) => calls[c].io \notin {"request", "body"}

----------------------------------------------------------------------------
(* toggleConnector *)

(* C21: toggleConnector on a registered id flips that connector's enabled
   flag and changes no other connector, no workflow and no cache entry; on
   an unknown id it changes nothing at all; two toggles of one id restore
   the registry. *)
C21_ToggleFlipsOneFlag ==
    /\ [](\A id \in ToggleIds :
             toggleConnector(toggleConnector(connectors, id), id) = connectors)
    /\ [][\A id \in ToggleIds :
             ToggleConnector(id)
             => /\ DOMAIN connectors' = DOMAIN connectors
                /\ \A other \in DOMAIN connectors :
                      connectors'[other] =
                          IF other = id
                          THEN [connectors[id] EXCEPT !.enabled = ~connectors[id].enabled]
                          ELSE connectors[other]
                /\ id \notin DOMAIN connectors => connectors' = connectors
                /\ workflows' = workflows
                /\ responseCache' = responseCache]_vars

\* github was toggled off while user connectors are registered and an
\* envelope is cached
C21_Witness ==
    /\ ~connectors["github"].enabled
    /\ "files" \in DOMAIN connectors
    /\ responseCache # EmptyMap

----------------------------------------------------------------------------
(* Connector steps of a workflow *)

\* the k-th step executed was a connector step bound to connectorId
ConnectorStepOn(k, connectorId) ==
    /\ ExecutedStep(k).type = "connector"
    /\ ExecutedStep(k).connectorId = connectorId

\* the connectors the steps of the configured workflows are bound to
StepConnectorIds == {"hook", "db", "github", "files"}

(* C22: within one run, a connector step that follows a successful connector
   step with the same connectorId performs no dispatch, and its step result
   is the first one's envelope with cached = true. *)
C22_ConnectorStepsShareCacheKey ==
    \A id \in StepConnectorIds :
        \A k \in 1..Len(wf.results) :
            (ConnectorStepOn(k, id) /\ wf.results[k].result.success)
            => /\ \A j \in (k + 1)..Len(wf.results) :
                     ConnectorStepOn(j, id)
                     => wf.results[j].result =
                            [wf.results[k].result EXCEPT !.cached = TRUE]
               /\ ( /\ wf.pc = "awaitConnector"
                    /\ wf.workflow.steps[wf.stepIndex].connectorId = id )
                  => /\ calls[WfCall].pc = "returned"
                     /\ ~calls[WfCall].dispatched
                     /\ calls[WfCall].response.cached

\* two steps on the webhook connector: the second was answered from the cache
C22_Witness ==
    /\ Len(wf.results) >= 2
    /\ \E k \in 1..Len(wf.results), j \in 1..Len(wf.results) :
          /\ k < j
          /\ ConnectorStepOn(k, "hook") /\ ConnectorStepOn(j, "hook")
          /\ wf.executed[k] # wf.executed[j]
          /\ wf.results[k].result.success /\ ~wf.results[k].result.cached
          /\ wf.results[j].result.cached

\* connectorId is registered, enabled and of a type whose strategy has no
\* action 'run'
NoRunAction(connectorId) ==
    /\ connectorId \in DOMAIN connectors
    /\ connectors[connectorId].enabled
    /\ connectors[connectorId].type \in {"api", "file", "database"}

(* C23: a connector step bound to an enabled api, file or database connector
   yields a failed step result without any network, filesystem or database
   operation, and when the step is required the run halts at it. *)
C23_RunIsUnsupported ==
    \A id \in StepConnectorIds :
        NoRunAction(id)
        => /\ ( /\ wf.pc = "awaitConnector"
                /\ wf.workflow.steps[wf.stepIndex].connectorId = id )
              => /\ calls[WfCall].pc # "rejected"
                 /\ calls[WfCall].io = "none"
                 /\ calls[WfCall].timer = Absent
           /\ \A k \in 1..Len(wf.results) :
                 ConnectorStepOn(k, id)
                 => /\ ~wf.results[k].result.success
                    /\ ExecutedStep(k).required
                       => /\ k = Len(wf.results)
                          /\ wf.pc = "returned"
                          /\ ~wf.response.success

----------------------------------------------------------------------------
(* Termination of a workflow run *)

(* C24: every run that has entered the loop of executeWorkflow reaches a
   returned envelope, every step operation being answered. *)
C24_RunTerminates == (wf.pc = "loop") ~> (wf.pc = "returned")

----------------------------------------------------------------------------
(* The result of a condition step *)

(* C25: the result recorded for a condition step has success = true
   whatever its expression gives (true, false, or an exception), and a run
   whose last recorded step is a condition step has not been halted by the
   rule on required steps, the step's required flag being true or not. *)
C25_ConditionResultSucceeds ==
    \A k \in 1..Len(wf.results) :
        ExecutedStep(k).type = "condition"
        => /\ wf.results[k].result.success
           /\ wf.results[k].result.error = Undefined
           /\ (k = Len(wf.results) /\ LogComplete /\ wf.pc = "returned")
              => wf.response.error # "Required step failed"

\* a required condition step whose expression is false or throws has been
\* executed, and the run has executed another step after it
C25_Witness ==
    \E k \in 1..(Len(wf.results) - 1) :
        /\ ExecutedStep(k).type = "condition"
        /\ ExecutedStep(k).required
        /\ ExecutedStep(k).condition \in {"false", "throw"}
        /\ wf.results[k].result.data = <<"result", FALSE>>

----------------------------------------------------------------------------
(* A condition step whose pointer leads nowhere *)

\* the pointer the condition step selects is absent or names no step of the
\* workflow of the run
Dangling(step) ==
    \A i \in 1..Len(wf.workflow.steps) : wf.workflow.steps[i].id # Pointer(step)

(* C26: when the pointer a condition step selects (onSuccess or onFailure)
   is absent or names no step of the workflow, no step is executed after
   the condition step, and the run returns success = true with the log of
   the run, whose last entry is the condition step's. *)
C26_DanglingPointerEndsRun ==
    \A k \in 1..Len(wf.executed) :
        (ExecutedStep(k).type = "condition" /\ Dangling(ExecutedStep(k)))
        => /\ k = Len(wf.executed)
           /\ wf.results[k].stepId = ExecutedStep(k).id
           /\ wf.pc \in {"loop", "returned"}
           /\ wf.pc = "returned"
              => /\ wf.response.success
                 /\ wf.response.error = Undefined
                 /\ wf.response.data = wf.results

\* a run has returned after a condition step whose pointer leads nowhere,
\* with steps of the workflow after it that were not executed
C26_Witness ==
    /\ wf.pc = "returned"
    /\ Len(wf.executed) >= 2
    /\ LET last == wf.executed[Len(wf.executed)]
       IN  /\ wf.workflow.steps[last].type = "condition"
           /\ Dangling(wf.workflow.steps[last])
           /\ last < Len(wf.workflow.steps)
    /\ wf.response.success

----------------------------------------------------------------------------
(* No retry *)

(* C27: one executeConnector call invokes its strategy at most once: a
   call whose dispatch failed has returned the failed envelope after that
   one invocation, whatever config.retries of its connector is. *)
C27_DispatchedAtMostOnce ==
    \A c \in CallSlots :
        /\ calls[c].attempts <= 1
        /\ calls[c].dispatched <=> calls[c].attempts = 1
        /\ (calls[c].pc = "returned" /\ calls[c].dispatched /\ ~calls[c].response.success)
           => calls[c].attempts = 1

\* a call dispatched to a connector that allows retries has returned a
\* failed envelope
C27_Witness ==
    \E c \in ExternalCalls :
        /\ calls[c].pc = "returned" /\ calls[c].dispatched
        /\ ~calls[c].response.success
        /\ calls[c].connectorId \in DOMAIN connectors
        /\ connectors[calls[c].connectorId].config.retries >= 1
        /\ calls[c].attempts = 1

----------------------------------------------------------------------------
(* Calls with side effects and the cache *)

\* call c dispatched to the file connector and succeeded
FileCall(c, actions) ==
    /\ calls[c].pc = "returned" /\ calls[c].dispatched /\ calls[c].response.success
    /\ calls[c].connectorId = "files" /\ calls[c].action \in actions

\* call a read a file, and no other call made that request; call b, made
\* after a returned, wrote the same file through the same connector; a
\* returned less than 60 seconds ago
WrittenAfterRead(a, b) ==
    /\ FileCall(a, {"read"}) /\ FileCall(b, {"write", "append"})
    /\ \A x \in ExternalCalls \ {a} : RequestOf(x) # RequestOf(a)
    /\ ParamPath(calls[a].params) = ParamPath(calls[b].params)
    /\ calls[b].startTime >= ReturnedAt(a)
    /\ now - ReturnedAt(a) < CacheTTL

\* the step leaves the cache entry of `key` as it is
EntryKept(key) ==
    /\ key \in DOMAIN responseCache'
    /\ responseCache'[key] = responseCache[key]

\* the step is the return of a successful dispatch whose cache key is `key`
StoresUnder(key) ==
    \E c \in CallSlots :
        /\ calls[c].pc = "awaiting" /\ calls'[c].pc = "returned"
        /\ calls'[c].response.success
        /\ KeyOf(c) = key

(* C28: executeConnector removes no cache entry and changes none but the
   one of the key of a call that returns successfully; so after a
   successful write or append to a file, a read of the same file through
   the same connector that succeeded less than 60 seconds ago is still
   answered from the cache, without dispatch, by the envelope of that read. *)
C28_SideEffectsKeepTheCache ==
    /\ [][\A key \in DOMAIN responseCache : EntryKept(key) \/ StoresUnder(key)]_vars
    /\ [](\A a \in ExternalCalls, b \in ExternalCalls :
            WrittenAfterRead(a, b)
            => LET again == Invoke(calls[a].connectorId, calls[a].action, calls[a].params)
               IN  /\ again.pc = "returned"
                   /\ ~again.dispatched
                   /\ again.response = [calls[a].response EXCEPT !.cached = TRUE])

\* a file was read and then written through the same connector, both with
\* success, the read less than 60 seconds ago
C28_Witness ==
    \E a \in ExternalCalls, b \in ExternalCalls :
        /\ WrittenAfterRead(a, b)
        /\ calls[b].action = "write"
        /\ KeyOf(a) \in DOMAIN responseCache /\ KeyOf(b) \in DOMAIN responseCache

----------------------------------------------------------------------------
(* Registry rebuilds and the cache *)

\* call a dispatched and succeeded; call b made the same request later than
\* a returned and less than 60 seconds later, and found the connector
\* registered and enabled; no other call made that request
RepeatedWithin(a, b) ==
    /\ a < b
    /\ \A x \in ExternalCalls \ {a, b} : RequestOf(x) # RequestOf(a)
    /\ calls[a].pc = "returned" /\ calls[a].dispatched /\ calls[a].response.success
    /\ calls[b].pc = "returned" /\ ReachedConnector(b)
    /\ RequestOf(b) = RequestOf(a)
    /\ calls[b].issuedAt > ReturnedAt(a)
    /\ calls[b].issuedAt - ReturnedAt(a) < CacheTTL

(* C29: a step that changes the registry (a reload, clearConnectors) leaves
   the response cache as it is; a call that repeats a request less than 60
   seconds after it succeeded returns the envelope of that success with
   cached = true and dispatches nothing, also when the connector has been
   replaced in between by another definition under the same id. *)
C29_RebuildKeepsTheCache ==
    /\ [][connectors' # connectors => responseCache' = responseCache]_vars
    /\ [](\A a \in ExternalCalls, b \in ExternalCalls :
            RepeatedWithin(a, b)
            => /\ ~calls[b].dispatched
               /\ calls[b].response = [calls[a].response EXCEPT !.cached = TRUE])

\* the repeated call was answered from the cache while the id was registered
\* with a definition of another type than the one the first call reached
C29_Witness ==
    \E a \in ExternalCalls, b \in ExternalCalls :
        /\ RepeatedWithin(a, b)
        /\ calls[b].response.cached
        /\ calls[b].found # calls[a].strategy

----------------------------------------------------------------------------
(* The sweep and the callers *)

(* C30: the sweep cannot be observed through executeConnector: whenever it
   runs it keeps, unchanged, every entry that would answer a call (age less
   than 60 seconds); and an entry that leaves the cache or changes either
   would not answer a call any more or is replaced by the successful return
   of a call on its key. *)
C30_SweepIsInert ==
    /\ [](\A key \in DOMAIN responseCache :
            CacheHit(key)
            => /\ key \in DOMAIN cleanup(responseCache)
               /\ cleanup(responseCache)[key] = responseCache[key])
    /\ [][\A key \in DOMAIN responseCache :
              EntryKept(key) \/ ~CacheHit(key) \/ StoresUnder(key)]_vars

\* the sweep has removed the entry of a successful call, and the request is
\* being dispatched again more than maxAge after that call returned
C30_Witness ==
    \E a \in ExternalCalls, b \in ExternalCalls :
        /\ calls[a].pc = "returned" /\ calls[a].dispatched /\ calls[a].response.success
        /\ KeyOf(a) \notin DOMAIN responseCache
        /\ calls[b].pc = "awaiting" /\ calls[b].dispatched
        /\ RequestOf(b) = RequestOf(a)
        /\ calls[b].issuedAt - ReturnedAt(a) > MaxAge
====
